---- MODULE Spec2Model ----
(***************************************************************************)
(* Model of the peer engine of src/p2p/abstract_p2p_client.py and of the   *)
(* frame layer of src/protocol.py.                                         *)
(*                                                                         *)
(* Two peers, "A" and "B", are joined by two one-way byte pipes.  Each     *)
(* peer runs one listener thread (_listen).  Peer "A" also runs the        *)
(* application's caller thread "main" and the send_file driver threads.    *)
(* A frame in a pipe is the record of the fields wrap_* packs; a payload   *)
(* is a sequence of bytes.                                                 *)
(***************************************************************************)
EXTENDS Integers, Sequences, FiniteSets, TLC

\* ------------------------------------------------------------- bounds
\* Frames a pipe holds; a send on a full pipe is lost by the transport.
MaxWire == 1
\* Calls the application's caller thread makes.
MaxCalls == 2
\* Copies of one message id the per-id history counters tell apart.
MaxCopies == 2
\* send_file driver threads running in the file-transfer scenario.
FileDrivers == 1
\* send_file driver threads that contend for the stream pool.
PoolDrivers == 2
\* Transfers started beyond the four the stream pool can serve at once.
Waiters == 1

\* ---------------------------------------------------------- constants
\* Python's None, where the code uses it for an absent id.
None == 0 - 1
Peers == {"A", "B"}
Other(p) == IF p = "A" THEN "B" ELSE "A"
FILE_TRANSFER_STREAMS == <<7771, 7772, 7773, 7774>>
FileStreamIds == {FILE_TRANSFER_STREAMS[i] : i \in 1..Len(FILE_TRANSFER_STREAMS)}
\* CHUNK_SIZE (line 11), scaled down from 1024 so that a three-byte file takes
\* two content chunks.
CHUNK_SIZE == 2
\* The sizes struct's native 'L' has: 4 on ILP32 and LLP64 builds, 8 on LP64.
NativeLongSizes == {4, 8}
\* ord('0'), ord('1')
ORD_0 == 48
ORD_1 == 49

\* Application stream ids the caller uses (none a file-transfer stream).
AppStreams == {5}
\* Payloads the application sends: b"x", b"hi".
Payloads == {<<120>>, <<104, 105>>}
\* Existing files: path (code points) -> content (bytes).  PathA, "d/" and
\* the code point U+00E9 (two bytes in UTF-8), holds b"ABC": two content
\* chunks.  PathE, "e", is empty.
PathA == <<100, 47, 233>>
PathE == <<101>>
FileSystem == [p \in {PathA, PathE} |->
                  IF p = PathA THEN <<65, 66, 67>> ELSE <<>>]
Paths == DOMAIN FileSystem
\* Paths of no file: "n".
MissingPaths == {<<110>>}
DriverSeq == <<"d1", "d2", "d3", "d4", "d5", "d6">>
Drivers == {DriverSeq[i] : i \in 1..Len(DriverSeq)}
Threads == {"main"} \cup Drivers

VARIABLES
    long_size,          \* struct.calcsize('L') of the build
    next_message_id,    \* [peer -> int]               (line 19)
    message_id_to_was_acked,  \* [peer -> [ids -> BOOLEAN]]  (line 20)
    messages_ids_that_have_been_received, \* [peer -> set of ids] (line 21)
    file_stream_id_to_chunks,       \* [peer -> [stream -> [index -> bytes]]]
    file_stream_id_to_is_available, \* [peer -> [stream -> BOOLEAN]]
    file_streams_lock,  \* [peer -> holder thread or "free"]
    wire,               \* [peer -> frames on their way to its listener]
    listener_alive,     \* [peer -> BOOLEAN]: the _listen thread still runs
    finalisers,         \* [peer -> set of running _handle_file_chunks threads]
    pc,                 \* [thread -> position]
    loc,                \* [thread -> local variables]
    calls,              \* calls "main" has made
    delivered,          \* [peer -> log of reliable delivery steps and on_file]
    n_disp,             \* [peer -> [id -> reliable frames dispatched]]
    n_ack,              \* [peer -> [id -> ACK frames sent]]
    ids_returned,       \* what _get_next_message_id returned at "A", in order
    upcall,             \* [peer -> where its listener thread is inside an upcall]
    recv,               \* [peer -> what peer.receive() will return, and why]
    listen_data,        \* [peer -> the buffer `data` of _listen]
    packets,            \* [peer -> candidates of line 187 not yet unwrapped]
    codec,              \* a call of wrap_* and of Protocol.unwrap on its result
    ev                  \* what the last step sent and which upcalls it made

vars == <<upcall, recv, listen_data, packets, codec, long_size, next_message_id, message_id_to_was_acked,
          messages_ids_that_have_been_received, file_stream_id_to_chunks,
          file_stream_id_to_is_available, file_streams_lock, wire,
          listener_alive, finalisers, pc, loc, calls, delivered,
          n_disp, n_ack, ids_returned, ev>>

\* ------------------------------------------------------------ helpers
Min(a, b) == IF a < b THEN a ELSE b
Range(s) == {s[i] : i \in 1..Len(s)}
\* data[lo:hi] of Python, 0-based, hi exclusive, clipped to the data.
Slice(s, lo, hi) == SubSeq(s, Min(lo, Len(s)) + 1, Min(hi, Len(s)))
RECURSIVE Pow256(_)
Pow256(k) == IF k = 0 THEN 1 ELSE 256 * Pow256(k - 1)
\* struct.pack('L', n): size bytes, little-endian (n below 2^24 here).
PackL(n, size) ==
    [i \in 1..size |-> IF i <= 3 THEN (n \div Pow256(i - 1)) % 256 ELSE 0]
\* struct.unpack('L', b) raises struct.error unless len(b) = calcsize('L').
UnpackLOk(b, size) == Len(b) = size
RECURSIVE UnpackL(_)
UnpackL(b) ==
    IF b = <<>> THEN 0
    ELSE b[1] + (IF UnpackL(Tail(b)) = 0 THEN 0 ELSE 256 * UnpackL(Tail(b)))

\* str.encode('utf8') and bytes.decode('utf8') on code points below 0x800.
Utf8Char(c) == IF c < 128 THEN <<c>> ELSE <<192 + (c \div 64), 128 + (c % 64)>>
RECURSIVE str_to_bytes(_)
str_to_bytes(s) ==
    IF s = <<>> THEN <<>> ELSE Utf8Char(Head(s)) \o str_to_bytes(Tail(s))
RECURSIVE Utf8Valid(_)
Utf8Valid(b) ==
    IF b = <<>> THEN TRUE
    ELSE IF b[1] < 128 THEN Utf8Valid(Tail(b))
    ELSE /\ b[1] >= 194 /\ b[1] < 224 /\ Len(b) >= 2
         /\ b[2] >= 128 /\ b[2] < 192
         /\ Utf8Valid(Tail(Tail(b)))
RECURSIVE Utf8Decode(_)
Utf8Decode(b) ==
    IF b = <<>> THEN <<>>
    ELSE IF b[1] < 128 THEN <<b[1]>> \o Utf8Decode(Tail(b))
    ELSE <<(b[1] - 192) * 64 + (b[2] - 128)>> \o Utf8Decode(Tail(Tail(b)))
\* os.path.basename: what follows the last '/'.
RECURSIVE basename(_)
basename(path) ==
    IF \E i \in 1..Len(path) : path[i] = 47
    THEN basename(Tail(path)) ELSE path

\* ------------------------------------------------------- frame layer
wrap_reliable(data, message_id) ==
    [type |-> 0, mid |-> message_id, sid |-> None, payload |-> data]
wrap_unreliable(data) ==
    [type |-> 1, mid |-> None, sid |-> None, payload |-> data]
wrap_reliable_stream(data, message_id, stream_id) ==
    [type |-> 2, mid |-> message_id, sid |-> stream_id, payload |-> data]
wrap_unreliable_stream(data, stream_id) ==
    [type |-> 3, mid |-> None, sid |-> stream_id, payload |-> data]
wrap_ack(acked_message_id) ==
    [type |-> 4, mid |-> acked_message_id, sid |-> None, payload |-> <<>>]
NoFrame == [type |-> None, mid |-> None, sid |-> None, payload |-> <<>>]

\* Protocol.unwrap succeeds on a frame wrap_* built only where the four
\* bytes each _unwrap_* slices for a field are what unpack('L') needs.
unwrap_ok(size) == UnpackLOk(<<0, 0, 0, 0>>, size)
\* (message, message_id, stream_id, acked_message_id) of Protocol.unwrap.
unwrap(f) ==
    IF f.type = 4
    THEN [message |-> <<None>>, message_id |-> None, stream_id |-> None,
          acked_message_id |-> f.mid]
    ELSE [message |-> f.payload, message_id |-> f.mid, stream_id |-> f.sid,
          acked_message_id |-> None]

\* --------------------------------------------------- tables, events
Put(f, k, v) == [x \in DOMAIN f \cup {k} |-> IF x = k THEN v ELSE f[x]]
Count(f, k) == IF k \in DOMAIN f THEN f[k] ELSE 0
Bump(f, k, cap) == Put(f, k, Min(cap, Count(f, k) + 1))
NoTable == [x \in {} |-> 0]

\* self._peer.send(frame), as an event of a step.
SendEv(f) == [k |-> "send", fn |-> "send", type |-> f.type, mid |-> f.mid,
              sid |-> f.sid, msg |-> f.payload, name |-> <<>>]
\* An upcall, or a step of the file-reassembly path, as an event of a step.
UpEv(fn, mid, sid, msg) ==
    [k |-> "up", fn |-> fn, type |-> None, mid |-> mid, sid |-> sid, msg |-> msg,
     name |-> <<>>]
\* What a step did: who took it, which operation, the frame it read (a
\* listener's step), its sends and upcalls in the order the code makes them.
Step(by, op, out) == [by |-> by, op |-> op, in |-> NoFrame, out |-> out]
\* A step of a listener on the frame it read.
ListenStep(by, op, f, out) == [by |-> by, op |-> op, in |-> f, out |-> out]
\* The pipe to q after peer.send(f): a full pipe loses the frame.
Transmit(w, q, f) ==
    [w EXCEPT ![q] = IF Len(@) < MaxWire THEN Append(@, f) ELSE @]

\* -------------------------------------------------------- byte layer
BARKER == <<66, 65, 68, 70, 68, 65, 68, 70>>
BEFORE_STUFF == <<66, 65, 68, 70, 68, 65, 68>>
AFTER_STUFF == <<66, 65, 68, 70, 68, 65, 68, 90>>
BARKER_LENGTH == Len(BARKER)

\* Does pat occur in s at 0-based index i?
OccursAt(s, pat, i) ==
    /\ i >= 0 /\ i + Len(pat) <= Len(s)
    /\ \A j \in 1..Len(pat) : s[i + j] = pat[j]
\* s.find(pat, start): the lowest index at or after start, or -1.
Find(s, pat, start) ==
    IF \E i \in start..Len(s) : OccursAt(s, pat, i)
    THEN CHOOSE i \in start..Len(s) :
             OccursAt(s, pat, i) /\ \A j \in start..(i - 1) : ~OccursAt(s, pat, j)
    ELSE 0 - 1
\* s.replace(old, new): the occurrences of old, left to right, not overlapping.
RECURSIVE Replace(_, _, _)
Replace(s, old, new) ==
    IF Len(s) < Len(old) THEN s
    ELSE IF OccursAt(s, old, 0)
    THEN new \o Replace(SubSeq(s, Len(old) + 1, Len(s)), old, new)
    ELSE <<Head(s)>> \o Replace(Tail(s), old, new)

_stuff_data(data) == Replace(data, BEFORE_STUFF, AFTER_STUFF)
_unstuff_data(data) == Replace(data, AFTER_STUFF, BEFORE_STUFF)

\* zlib.crc32 (CRC-32 of ISO 3309, reflected polynomial EDB88320), bit by
\* bit.  The 32-bit register is kept as two 16-bit halves <<high, low>>,
\* each of them at most 65535 at every round; the result is the four bytes
\* of the checksum, lowest byte first.
RECURSIVE Xor(_, _)
Xor(a, b) ==
    IF a = 0 THEN b
    ELSE IF b = 0 THEN a
    ELSE ((a + b) % 2) + 2 * Xor(a \div 2, b \div 2)
CrcPolyHigh == 60856
CrcPolyLow == 33568
CrcShift(reg) ==
    LET high == reg[1] \div 2
        low  == (reg[2] \div 2) + 32768 * (reg[1] % 2)
    IN  IF reg[2] % 2 = 1
        THEN <<Xor(high, CrcPolyHigh), Xor(low, CrcPolyLow)>>
        ELSE <<high, low>>
RECURSIVE CrcRounds(_, _)
CrcRounds(reg, n) ==
    IF n = 0 \/ reg[1] > 65535 THEN reg ELSE CrcRounds(CrcShift(reg), n - 1)
RECURSIVE CrcUpdate(_, _)
CrcUpdate(reg, s) ==
    IF s = <<>> \/ reg[1] > 65535 THEN reg
    ELSE CrcUpdate(CrcRounds(<<reg[1], Xor(reg[2], Head(s))>>, 8), Tail(s))
crc32(s) ==
    LET reg  == CrcUpdate(<<65535, 65535>>, s)
        high == 65535 - reg[1]
        low  == 65535 - reg[2]
    IN  <<low % 256, low \div 256, high % 256, high \div 256>>
\* struct.pack('L', crc): the four bytes, then zero bytes up to the size.
PackCrc(c, size) == c \o [i \in 1..(size - 4) |-> 0]

\* The id and stream fields of a frame, in the order wrap_* writes them.
HeaderFields(f, size) ==
    (IF f.type \in {0, 2, 4} THEN PackL(f.mid, size) ELSE <<>>)
    \o (IF f.type \in {2, 3} THEN PackL(f.sid, size) ELSE <<>>)
\* The bytes wrap_reliable, wrap_unreliable, wrap_reliable_stream,
\* wrap_unreliable_stream and wrap_ack return for the frame f.
Bytes(f, size) ==
    LET stuffed_data == _stuff_data(f.payload)
    IN  BARKER \o <<f.type>> \o HeaderFields(f, size)
        \o (IF f.type = 4 THEN <<>>
            ELSE PackL(Len(stuffed_data), size) \o stuffed_data
                 \o PackCrc(crc32(stuffed_data), size))

\* A payload whose CRC-32 is 70BD4644: its last six bytes are "BADFDA" and
\* the two lowest bytes of the checksum are "DF".
StraddlePayload == <<127, 79, 66, 65, 68, 70, 68, 65>>

NoUnwrap == [ok |-> FALSE, message |-> <<>>, message_id |-> None,
             stream_id |-> None, acked_message_id |-> None,
             redundant_bytes |-> <<>>]
\* Protocol._extract_message(data, current_index): ok is FALSE where it
\* raises (struct.error of a slice that is not calcsize('L') long, or the
\* ValueError of the CRC comparison).
_extract_message(data, current_index, size) ==
    LET size_field   == Slice(data, current_index, current_index + 4)
        data_size    == UnpackL(size_field)
        stuffed_data == Slice(data, current_index + 4, current_index + 4 + data_size)
        crc_field    == Slice(data, current_index + 4 + data_size,
                              current_index + 8 + data_size)
    IN  IF ~UnpackLOk(size_field, size) THEN NoUnwrap
        ELSE IF ~UnpackLOk(crc_field, size) THEN NoUnwrap
        ELSE IF crc_field # PackCrc(crc32(stuffed_data), size) THEN NoUnwrap
        ELSE [NoUnwrap EXCEPT !.ok = TRUE,
                              !.message = _unstuff_data(stuffed_data),
                              !.redundant_bytes =
                                  Slice(data, current_index + 8 + data_size, Len(data))]
\* One 4-byte field read by an _unwrap_* function at current_index.
FieldOk(data, current_index, size) ==
    UnpackLOk(Slice(data, current_index, current_index + 4), size)
Field(data, current_index) == UnpackL(Slice(data, current_index, current_index + 4))
\* Protocol.unwrap(data): ok is FALSE where it raises ValueError.
unwrap_bytes(data, size) ==
    LET i == BARKER_LENGTH + 1
    IN  IF ~OccursAt(data, BARKER, 0) THEN NoUnwrap
        ELSE IF Len(data) <= BARKER_LENGTH THEN NoUnwrap
        ELSE IF data[BARKER_LENGTH + 1] = 0
        THEN IF ~FieldOk(data, i, size) THEN NoUnwrap
             ELSE [_extract_message(data, i + 4, size) EXCEPT
                      !.message_id = Field(data, i)]
        ELSE IF data[BARKER_LENGTH + 1] = 1
        THEN _extract_message(data, i, size)
        ELSE IF data[BARKER_LENGTH + 1] = 2
        THEN IF ~FieldOk(data, i, size) \/ ~FieldOk(data, i + 4, size) THEN NoUnwrap
             ELSE [_extract_message(data, i + 8, size) EXCEPT
                      !.message_id = Field(data, i),
                      !.stream_id = Field(data, i + 4)]
        ELSE IF data[BARKER_LENGTH + 1] = 3
        THEN IF ~FieldOk(data, i, size) THEN NoUnwrap
             ELSE [_extract_message(data, i + 4, size) EXCEPT
                      !.stream_id = Field(data, i)]
        ELSE IF data[BARKER_LENGTH + 1] = 4
        THEN IF ~FieldOk(data, i, size) THEN NoUnwrap
             ELSE [NoUnwrap EXCEPT !.ok = TRUE, !.message = <<None>>,
                                   !.acked_message_id = Field(data, i),
                                   !.redundant_bytes = Slice(data, i + 4, Len(data))]
        ELSE NoUnwrap

\* ------------------------------------------------- dispatch (4.3)
\* `if acked_message_id:` of line 128: None and 0 are both false.
Truthy(x) == x # None /\ x # 0

\* The thread line 164 starts: _handle_file_chunks(stream_id, chunk_index),
\* at the test of line 114, with its locals filename and file_data and
\* the index i of the loop of line 120.
NewFinaliser(message_id, stream_id, number_of_chunks) ==
    [mid |-> message_id, stream |-> stream_id, n |-> number_of_chunks,
     at |-> "wait", i |-> 0, filename |-> <<>>, file_data |-> <<>>]

\* Faulty variant, for comparison: any is-last byte but '1' counts as '0'.
FileBranchAnyFlag(p, u) ==
    LET m   == u.message
        hdr == Slice(m, 0, 4)
        cur == file_stream_id_to_chunks[p]
    IN  IF ~UnpackLOk(hdr, long_size) \/ Len(m) < 5
        THEN [chunks |-> cur, spawn |-> {}, raised |-> TRUE]
        ELSE IF m[5] = ORD_1
        THEN [chunks |-> cur,
              spawn |-> {NewFinaliser(u.message_id, u.stream_id, UnpackL(hdr))},
              raised |-> FALSE]
        ELSE [chunks |-> [cur EXCEPT ![u.stream_id] =
                              Put(@, UnpackL(hdr), Slice(m, 5, Len(m)))],
              spawn |-> {}, raised |-> FALSE]
\* The file-reassembly branch (lines 151-167) for a first copy of message
\* id u.message_id on file stream u.stream_id.  raised: struct.error or
\* IndexError left the handler (and so the listener thread).
FileBranch(p, u) ==
    LET m   == u.message
        hdr == Slice(m, 0, 4)
        cur == file_stream_id_to_chunks[p]
    IN  IF ~UnpackLOk(hdr, long_size) \/ Len(m) < 5
        THEN [chunks |-> cur, spawn |-> {}, raised |-> TRUE]
        ELSE IF m[5] = ORD_0
        THEN [chunks |-> [cur EXCEPT ![u.stream_id] =
                              Put(@, UnpackL(hdr), Slice(m, 5, Len(m)))],
              spawn |-> {}, raised |-> FALSE]
        ELSE IF m[5] = ORD_1
        THEN [chunks |-> cur,
              spawn |-> {NewFinaliser(u.message_id, u.stream_id, UnpackL(hdr))},
              raised |-> FALSE]
        ELSE [chunks |-> cur, spawn |-> {}, raised |-> FALSE]

\* Which delivery step lines 147-170 take for a first copy.
DeliveryFn(u) ==
    IF u.stream_id = None THEN "on_reliable_message"
    ELSE IF u.stream_id \in FileStreamIds THEN "file_reassembly"
    ELSE "on_reliable_stream_message"

\* Faulty variant, for comparison: no deduplication, every copy is taken for a first copy.
EveryCopyIsFirst(p, message_id) == TRUE
\* Is this copy a first copy (line 144)?
IsFirstCopy(p, message_id) ==
    message_id \notin messages_ids_that_have_been_received[p]

\* Faulty variant, for comparison: the ACK is sent inside the branch of line 144, for a first copy only.
AckOnlyFirstCopy(p, message_id) ==
    IF IsFirstCopy(p, message_id) THEN <<SendEv(wrap_ack(message_id))>> ELSE <<>>
\* The ACK line 143 sends for every copy of a reliable frame, before the
\* check of line 144.
AckCopy(p, message_id) == <<SendEv(wrap_ack(message_id))>>

\* _handle_unwrapped_message at peer p on the unwrapped tuple u: the new
\* values of p's tables, the sends and upcalls made (in order), and whether
\* an exception left the handler.
_handle_unwrapped_message(p, u) ==
    LET same == [acked    |-> message_id_to_was_acked[p],
                 received |-> messages_ids_that_have_been_received[p],
                 chunks   |-> file_stream_id_to_chunks[p],
                 spawn    |-> {}, raised |-> FALSE, out |-> <<>>, log |-> <<>>]
    IN  IF Truthy(u.acked_message_id)
        THEN [same EXCEPT !.acked = Put(@, u.acked_message_id, TRUE)]
        ELSE IF u.message_id = None
        THEN [same EXCEPT !.out =
                 <<UpEv(IF u.stream_id = None THEN "on_unreliable_message"
                        ELSE "on_unreliable_stream_message",
                        None, u.stream_id, u.message)>>]
        ELSE IF ~IsFirstCopy(p, u.message_id)
        THEN [same EXCEPT !.out = AckCopy(p, u.message_id)]
        ELSE LET step == UpEv(DeliveryFn(u), u.message_id, u.stream_id, u.message)
                 fb   == FileBranch(p, u)
                 rec  == [same EXCEPT
                            !.received = @ \cup {u.message_id},
                            !.out = AckCopy(p, u.message_id) \o <<step>>,
                            !.log = <<step>>]
             IN  IF DeliveryFn(u) = "file_reassembly"
                 THEN [rec EXCEPT !.chunks = fb.chunks, !.spawn = fb.spawn,
                                  !.raised = fb.raised]
                 ELSE rec

\* -------------------------------------------------------------- Init
Loc0 == [msg |-> <<>>, sid |-> None, tmp |-> 0, mid |-> None, frame |-> NoFrame,
         ret |-> "idle", stream |-> None, idx |-> 0, path |-> <<>>, pos |-> 0,
         stage |-> "name", tx |-> 0, spins |-> 0]

\* The listener thread is in the loop of _listen, not inside an upcall.
Listening == [pc |-> "listening", mid |-> None, frame |-> NoFrame]

\* Nothing is scripted for peer.receive(): pieces are the byte strings its
\* next calls return, sent the payloads the remote peer wrapped, in order.
NoScript == [pieces |-> <<>>, sent |-> <<>>, kind |-> "none"]
\* No call of the codec is being followed.
NoCodec == [stage |-> "idle", f |-> NoFrame, bytes |-> <<>>, back |-> NoUnwrap]

\* The state after __init__ (lines 17-25).
Constructed ==
    /\ long_size \in NativeLongSizes
    /\ next_message_id = [p \in Peers |-> 0]
    /\ message_id_to_was_acked = [p \in Peers |-> NoTable]
    /\ messages_ids_that_have_been_received = [p \in Peers |-> {}]
    /\ file_stream_id_to_chunks = [p \in Peers |-> [s \in FileStreamIds |-> NoTable]]
    /\ file_stream_id_to_is_available = [p \in Peers |-> [s \in FileStreamIds |-> TRUE]]
    /\ file_streams_lock = [p \in Peers |-> "free"]
    /\ wire = [p \in Peers |-> <<>>]
    /\ listener_alive = [p \in Peers |-> TRUE]
    /\ finalisers = [p \in Peers |-> {}]
    /\ pc = [t \in Threads |-> IF t = "main" THEN "idle" ELSE "unstarted"]
    /\ loc = [t \in Threads |-> Loc0]
    /\ calls = 0
    /\ delivered = [p \in Peers |-> <<>>]
    /\ n_disp = [p \in Peers |-> NoTable]
    /\ n_ack = [p \in Peers |-> NoTable]
    /\ ids_returned = <<>>
    /\ upcall = [p \in Peers |-> Listening]
    /\ listen_data = [p \in Peers |-> <<>>]
    /\ packets = [p \in Peers |-> <<>>]
    /\ ev = Step("none", "init", <<>>)

Init ==
    /\ Constructed
    /\ recv = [p \in Peers |-> NoScript]
    /\ codec = NoCodec

\* What the sending side leaves alone.
ReceiverUnchanged ==
    UNCHANGED <<long_size, messages_ids_that_have_been_received,
                file_stream_id_to_chunks, listener_alive, finalisers,
                delivered, n_disp, n_ack, upcall, recv, listen_data, packets, codec>>
IdsUnchanged == UNCHANGED ids_returned
PoolUnchanged == UNCHANGED <<file_stream_id_to_is_available, file_streams_lock>>

\* ------------------------------------------- reliability engine (4.4)
\* Entry of send_reliable / send_reliable_stream_message by thread t, up to
\* the read of the counter by `self._next_message_id += 1` (line 48).
BeginReliable(t, msg, sid, ret, l) ==
    /\ loc' = [loc EXCEPT ![t] = [l EXCEPT !.msg = msg, !.sid = sid, !.ret = ret,
                                            !.tmp = next_message_id["A"]]]
    /\ pc' = [pc EXCEPT ![t] = "id_store"]

\* The write of `self._next_message_id += 1` (line 48).
IdStoreValue(t) == loc[t].tmp + 1
IdStore(t) ==
    /\ pc[t] = "id_store"
    /\ next_message_id' = [next_message_id EXCEPT !["A"] = IdStoreValue(t)]
    /\ pc' = [pc EXCEPT ![t] = "send_first"]
    /\ ev' = Step(t, "_get_next_message_id", <<>>)
    /\ ReceiverUnchanged /\ IdsUnchanged /\ PoolUnchanged
    /\ UNCHANGED <<message_id_to_was_acked, wire, loc, calls>>

\* The frame send_reliable (line 217) or send_reliable_stream_message
\* (line 226) wraps.
WrapFor(l, message_id) ==
    IF l.sid = None THEN wrap_reliable(l.msg, message_id)
    ELSE wrap_reliable_stream(l.msg, message_id, l.sid)

\* `return self._next_message_id` (line 49) reads the counter again; then
\* lines 216-217 (225-226) and the first transmission (line 208).
IdReturned == next_message_id["A"]
SendFirst(t) ==
    /\ pc[t] = "send_first"
    /\ message_id_to_was_acked' =
           [message_id_to_was_acked EXCEPT !["A"] = Put(@, IdReturned, FALSE)]
    /\ loc' = [loc EXCEPT ![t].mid = IdReturned,
                          ![t].frame = WrapFor(loc[t], IdReturned),
                          ![t].tx = 1]
    /\ ids_returned' = Append(ids_returned, IdReturned)
    /\ wire' = Transmit(wire, "B", WrapFor(loc[t], IdReturned))
    /\ pc' = [pc EXCEPT ![t] = "wait_ack"]
    /\ ev' = Step(t, "send_first", <<SendEv(WrapFor(loc[t], IdReturned))>>)
    /\ ReceiverUnchanged /\ PoolUnchanged
    /\ UNCHANGED <<next_message_id, calls>>

\* The loop condition of line 210, read by thread t.
LoopSeesAcked(t) == message_id_to_was_acked["A"][loc[t].mid]
\* Faulty variant, for comparison: each retransmission wraps the message again, under a new id.
RetransmitRewrapped(t) == WrapFor(loc[t], loc[t].mid + 1)
\* What line 211 sends.
RetransmitFrame(t) == loc[t].frame

\* One turn of the loop of lines 210-212.  cap: how far the thread's
\* history counter of transmissions counts.
Retransmit(t, cap) ==
    /\ pc[t] = "wait_ack"
    /\ ~LoopSeesAcked(t)
    /\ wire' = Transmit(wire, "B", RetransmitFrame(t))
    /\ ev' = Step(t, "retransmit", <<SendEv(RetransmitFrame(t))>>)
    /\ loc' = [loc EXCEPT ![t].tx = Min(cap, @ + 1)]
    /\ ReceiverUnchanged /\ PoolUnchanged
    /\ UNCHANGED <<next_message_id, message_id_to_was_acked, pc, calls, ids_returned>>

\* The loop exits; _send_message_and_wait_for_ack returns None, which
\* lines 218/227 hand to Thread(target=None).start(); the caller goes on.
AckObserved(t) ==
    /\ pc[t] = "wait_ack"
    /\ LoopSeesAcked(t)
    /\ pc' = [pc EXCEPT ![t] = loc[t].ret]
    /\ ev' = Step(t, "ack_observed", <<>>)
    /\ ReceiverUnchanged /\ IdsUnchanged /\ PoolUnchanged
    /\ UNCHANGED <<next_message_id, message_id_to_was_acked, wire, loc, calls>>

\* ------------------------------------------------- peer facade (4.6)
CanCall == pc["main"] = "idle"
Started == {d \in Drivers : pc[d] # "unstarted"}

\* send_reliable(data) called by the application (lines 214-218).
send_reliable(data) ==
    /\ CanCall
    /\ calls' = calls + 1
    /\ BeginReliable("main", data, None, "idle", loc["main"])
    /\ ev' = Step("main", "send_reliable", <<>>)
    /\ ReceiverUnchanged /\ IdsUnchanged /\ PoolUnchanged
    /\ UNCHANGED <<next_message_id, message_id_to_was_acked, wire>>

\* send_reliable_stream_message(data, stream_id) called by the application.
send_reliable_stream_message(data, stream_id) ==
    /\ CanCall
    /\ calls' = calls + 1
    /\ BeginReliable("main", data, stream_id, "idle", loc["main"])
    /\ ev' = Step("main", "send_reliable_stream_message", <<>>)
    /\ ReceiverUnchanged /\ IdsUnchanged /\ PoolUnchanged
    /\ UNCHANGED <<next_message_id, message_id_to_was_acked, wire>>

\* Faulty variant, for comparison: an unreliable frame is sent twice.
UnreliableSentTwice(f) == <<SendEv(f), SendEv(f)>>
\* What send_unreliable / send_unreliable_stream_message hand to peer.send.
UnreliableSends(f) == <<SendEv(f)>>
RECURSIVE TransmitAll(_, _, _)
TransmitAll(w, q, evs) ==
    IF evs = <<>> THEN w
    ELSE TransmitAll(Transmit(w, q, [type |-> Head(evs).type, mid |-> Head(evs).mid,
                                     sid |-> Head(evs).sid, payload |-> Head(evs).msg]),
                     q, Tail(evs))

\* send_unreliable(data) (lines 220-221).
send_unreliable(data) ==
    /\ CanCall
    /\ calls' = calls + 1
    /\ wire' = TransmitAll(wire, "B", UnreliableSends(wrap_unreliable(data)))
    /\ ev' = Step("main", "send_unreliable", UnreliableSends(wrap_unreliable(data)))
    /\ ReceiverUnchanged /\ IdsUnchanged /\ PoolUnchanged
    /\ UNCHANGED <<next_message_id, message_id_to_was_acked, pc, loc>>

\* send_unreliable_stream_message(data, stream_id) (lines 229-230).
send_unreliable_stream_message(data, stream_id) ==
    /\ CanCall
    /\ calls' = calls + 1
    /\ wire' = TransmitAll(wire, "B",
                           UnreliableSends(wrap_unreliable_stream(data, stream_id)))
    /\ ev' = Step("main", "send_unreliable_stream_message",
                  UnreliableSends(wrap_unreliable_stream(data, stream_id)))
    /\ ReceiverUnchanged /\ IdsUnchanged /\ PoolUnchanged
    /\ UNCHANGED <<next_message_id, message_id_to_was_acked, pc, loc>>

\* The thread Thread(...).start() of line 237 creates: the first unused one.
FreshDriver ==
    DriverSeq[CHOOSE i \in 1..Len(DriverSeq) :
                 /\ pc[DriverSeq[i]] = "unstarted"
                 /\ \A j \in 1..(i - 1) : pc[DriverSeq[j]] # "unstarted"]

\* Faulty variant, for comparison: the path is not tested.
AnyPathExists(file_path) == TRUE
\* os.path.exists(file_path) (line 234).
PathExists(file_path) == file_path \in Paths
\* send_file(file_path) (lines 232-237): on a path that does not exist
\* line 235 raises ValueError to the caller, who goes on; otherwise a
\* driver thread is started.
send_file(file_path) ==
    /\ CanCall
    /\ calls' = calls + 1
    /\ IF ~PathExists(file_path)
       THEN /\ ev' = Step("main", "send_file_raised", <<>>)
            /\ UNCHANGED <<pc, loc>>
       ELSE /\ \E d \in Drivers : pc[d] = "unstarted"
            /\ pc' = [pc EXCEPT ![FreshDriver] = "lock"]
            /\ loc' = [loc EXCEPT ![FreshDriver].path = file_path]
            /\ ev' = Step("main", "send_file", <<>>)
    /\ ReceiverUnchanged /\ IdsUnchanged /\ PoolUnchanged
    /\ UNCHANGED <<next_message_id, message_id_to_was_acked, wire>>

\* ------------------------------------- file-stream pool, file send (4.5)
\* Faulty variant, for comparison: acquire() never waits.
LockNeverHeld == TRUE
\* self._file_streams_lock.acquire() (line 77).
LockIsFree == file_streams_lock["A"] = "free"
LockAcquire(t) ==
    /\ pc[t] = "lock"
    /\ LockIsFree
    /\ file_streams_lock' = [file_streams_lock EXCEPT !["A"] = t]
    /\ pc' = [pc EXCEPT ![t] = "scan"]
    /\ ev' = Step(t, "lock_acquire", <<>>)
    /\ ReceiverUnchanged /\ IdsUnchanged
    /\ UNCHANGED <<next_message_id, message_id_to_was_acked, wire, loc, calls,
                   file_stream_id_to_is_available>>

\* The for loop of lines 81-82: the first stream id read as available.
FirstAvailable ==
    FILE_TRANSFER_STREAMS[
        CHOOSE i \in 1..Len(FILE_TRANSFER_STREAMS) :
            /\ file_stream_id_to_is_available["A"][FILE_TRANSFER_STREAMS[i]]
            /\ \A j \in 1..(i - 1) :
                   ~file_stream_id_to_is_available["A"][FILE_TRANSFER_STREAMS[j]]]
SomeAvailable ==
    \E s \in FileStreamIds : file_stream_id_to_is_available["A"][s]

\* A pass of the while loop (lines 80-82) that finds a stream; a pass that
\* finds none changes nothing and the thread spins, holding the lock.
ScanFind(t) ==
    /\ pc[t] = "scan"
    /\ SomeAvailable
    /\ loc' = [loc EXCEPT ![t].stream = FirstAvailable]
    /\ pc' = [pc EXCEPT ![t] = "mark"]
    /\ ev' = Step(t, "scan_find", <<>>)
    /\ ReceiverUnchanged /\ IdsUnchanged /\ PoolUnchanged
    /\ UNCHANGED <<next_message_id, message_id_to_was_acked, wire, calls>>

\* Faulty variant, for comparison: a pass that finds no stream ends the thread.
MissGivesUp == "done"
\* Where a pass that finds no stream leaves the thread: at the test of
\* `while stream_id is None` (line 80), which holds again.
AfterMiss == "scan"
\* A pass of the while loop (lines 80-82) that finds no stream: the thread
\* spins, holding the lock.  spins records that it has.
ScanMiss(t) ==
    /\ pc[t] = "scan"
    /\ ~SomeAvailable
    /\ pc' = [pc EXCEPT ![t] = AfterMiss]
    /\ loc' = [loc EXCEPT ![t].spins = 1]
    /\ ev' = Step(t, "scan_miss", <<>>)
    /\ ReceiverUnchanged /\ IdsUnchanged /\ PoolUnchanged
    /\ UNCHANGED <<next_message_id, message_id_to_was_acked, wire, calls>>

\* Lines 83-88: mark the stream taken, leave the loop, release the lock.
MarkTaken(avail, s) == [avail EXCEPT ![s] = FALSE]
Mark(t) ==
    /\ pc[t] = "mark"
    /\ file_stream_id_to_is_available' =
           [file_stream_id_to_is_available EXCEPT
               !["A"] = MarkTaken(@, loc[t].stream)]
    /\ file_streams_lock' = [file_streams_lock EXCEPT !["A"] = "free"]
    /\ loc' = [loc EXCEPT ![t].idx = 0, ![t].pos = 0, ![t].stage = "name"]
    /\ pc' = [pc EXCEPT ![t] = "next"]
    /\ ev' = Step(t, "mark", <<>>)
    /\ ReceiverUnchanged /\ IdsUnchanged
    /\ UNCHANGED <<next_message_id, message_id_to_was_acked, wire, calls>>

\* struct.pack('L', packet_index) + is_last_chunk + body (lines 96, 101, 106).
ChunkMessage(index, is_last, body) == PackL(index, long_size) \o <<is_last>> \o body
\* transferred_file.read(CHUNK_SIZE) at position pos.
ReadChunk(path, pos) == Slice(FileSystem[path], pos, pos + CHUNK_SIZE)

\* _handle_file_send from line 93 on: the next frame of the transfer, up
\* to the counter read of its send_reliable_stream_message.
DriverNext(t) ==
    /\ pc[t] = "next"
    /\ LET l == loc[t]
           chunk == ReadChunk(l.path, l.pos)
       IN  IF l.stage = "name"
           THEN BeginReliable(t,
                    ChunkMessage(0, ORD_0, str_to_bytes(basename(l.path))),
                    l.stream, "next", [l EXCEPT !.stage = "content"])
           ELSE IF chunk # <<>>
           THEN BeginReliable(t, ChunkMessage(l.idx + 1, ORD_0, chunk),
                    l.stream, "next",
                    [l EXCEPT !.idx = @ + 1, !.pos = @ + Len(chunk)])
           ELSE BeginReliable(t, ChunkMessage(l.idx + 1, ORD_1, <<>>),
                    l.stream, "drain", [l EXCEPT !.idx = @ + 1])
    /\ ev' = Step(t, "send_reliable_stream_message", <<>>)
    /\ ReceiverUnchanged /\ IdsUnchanged /\ PoolUnchanged
    /\ UNCHANGED <<next_message_id, message_id_to_was_acked, wire, calls>>

\* Lines 109-110: after the sleep the stream is marked free, without the lock.
Release(t) ==
    /\ pc[t] = "drain"
    /\ file_stream_id_to_is_available' =
           [file_stream_id_to_is_available EXCEPT !["A"][loc[t].stream] = TRUE]
    /\ pc' = [pc EXCEPT ![t] = "done"]
    /\ ev' = Step(t, "release", <<>>)
    /\ ReceiverUnchanged /\ IdsUnchanged
    /\ UNCHANGED <<next_message_id, message_id_to_was_acked, wire, loc, calls,
                   file_streams_lock>>

\* ------------------------------------------- receive pipeline (4.2)
SenderUnchanged ==
    UNCHANGED <<long_size, next_message_id, file_stream_id_to_is_available,
                file_streams_lock, pc, loc, calls, ids_returned, upcall,
                recv, listen_data, packets, codec>>

RECURSIVE SendAll(_, _, _)
SendAll(w, q, out) ==
    IF out = <<>> THEN w
    ELSE IF Head(out).k = "send"
    THEN SendAll(Transmit(w, q, [type |-> Head(out).type, mid |-> Head(out).mid,
                                 sid |-> Head(out).sid, payload |-> Head(out).msg]),
                 q, Tail(out))
    ELSE SendAll(w, q, Tail(out))

\* The ACK counters after the sends of a handler.
RECURSIVE BumpAcks(_, _, _)
BumpAcks(tbl, out, cap) ==
    IF out = <<>> THEN tbl
    ELSE BumpAcks(IF Head(out).k = "send" /\ Head(out).type = 4
                  THEN Bump(tbl, Head(out).mid, cap) ELSE tbl,
                  Tail(out), cap)

RECURSIVE CountSends(_)
CountSends(out) ==
    IF out = <<>> THEN 0
    ELSE (IF Head(out).k = "send" THEN 1 ELSE 0) + CountSends(Tail(out))

\* One frame read by peer p's listener: _listen hands Protocol.unwrap the
\* candidate (lines 191, 200) and, if that succeeds, dispatches it (lines
\* 197, 204).  keep: the transport delivers the same frame once more.
\* cap: how far the per-id history counters count.
Listen(p, keep, cap) ==
    /\ listener_alive[p]
    /\ wire[p] # <<>>
    /\ LET f    == Head(wire[p])
           rest == IF keep THEN wire ELSE [wire EXCEPT ![p] = Tail(@)]
           u    == unwrap(f)
           h    == _handle_unwrapped_message(p, u)
       IN  IF ~unwrap_ok(long_size)
           THEN /\ wire' = rest
                /\ ev' = ListenStep(p, "bad_packet", f, <<>>)
                /\ UNCHANGED <<message_id_to_was_acked,
                               messages_ids_that_have_been_received,
                               file_stream_id_to_chunks, listener_alive,
                               finalisers, delivered, n_disp, n_ack>>
           ELSE /\ wire' = SendAll(rest, Other(p), h.out)
                /\ message_id_to_was_acked' =
                       [message_id_to_was_acked EXCEPT ![p] = h.acked]
                /\ messages_ids_that_have_been_received' =
                       [messages_ids_that_have_been_received EXCEPT ![p] = h.received]
                /\ file_stream_id_to_chunks' =
                       [file_stream_id_to_chunks EXCEPT ![p] = h.chunks]
                /\ finalisers' = [finalisers EXCEPT ![p] = @ \cup h.spawn]
                /\ listener_alive' = [listener_alive EXCEPT ![p] = ~h.raised]
                /\ delivered' = [delivered EXCEPT ![p] = @ \o h.log]
                /\ n_disp' = IF f.type \in {0, 2}
                             THEN [n_disp EXCEPT ![p] = Bump(@, f.mid, cap)]
                             ELSE n_disp
                /\ n_ack' = [n_ack EXCEPT ![p] = BumpAcks(@, h.out, cap)]
                /\ ev' = ListenStep(p, "dispatch", f, h.out)
    /\ SenderUnchanged

\* The transport loses the frame at the head of the pipe to p, or damages
\* it so that unwrap raises ValueError and _listen drops it (lines 194-195).
Drop(p) ==
    /\ wire[p] # <<>>
    /\ wire' = [wire EXCEPT ![p] = Tail(@)]
    /\ ev' = Step(p, "drop", <<>>)
    /\ SenderUnchanged
    /\ UNCHANGED <<message_id_to_was_acked, messages_ids_that_have_been_received,
                   file_stream_id_to_chunks, listener_alive, finalisers,
                   delivered, n_disp, n_ack>>

\* ------------------------------------- a send from inside an upcall
\* What the application's on_reliable_message sends back in the scenario
\* where it replies with send_reliable.
Reply == <<114>>

\* Does this dispatch call on_reliable_message (line 148)?
CallsOnReliable(out) ==
    \E i \in 1..Len(out) : out[i].k = "up" /\ out[i].fn = "on_reliable_message"

\* The id send_reliable gets on the listener thread of peer p (line 215):
\* no other thread of p sends in this scenario.
ReplyId(p) == next_message_id[p] + 1

\* One frame read by the listener of peer p whose on_reliable_message
\* replies with self.send_reliable(Reply).  The upcall runs on the listener
\* thread (line 148), and so do lines 215-218 and, because line 218 calls
\* _send_message_and_wait_for_ack before Thread() is constructed, the first
\* transmission (line 208): the listener thread is now in the loop of
\* lines 210-212.
ReplyListen(p) ==
    /\ listener_alive[p]
    /\ upcall[p].pc = "listening"
    /\ wire[p] # <<>>
    /\ LET f    == Head(wire[p])
           rest == [wire EXCEPT ![p] = Tail(@)]
           u    == unwrap(f)
           h    == _handle_unwrapped_message(p, u)
           rf   == wrap_reliable(Reply, ReplyId(p))
       IN  IF ~unwrap_ok(long_size)
           THEN /\ wire' = rest
                /\ ev' = ListenStep(p, "bad_packet", f, <<>>)
                /\ UNCHANGED <<message_id_to_was_acked,
                               messages_ids_that_have_been_received,
                               file_stream_id_to_chunks, listener_alive,
                               finalisers, delivered, n_disp, n_ack,
                               next_message_id, upcall>>
           ELSE /\ messages_ids_that_have_been_received' =
                       [messages_ids_that_have_been_received EXCEPT ![p] = h.received]
                /\ file_stream_id_to_chunks' =
                       [file_stream_id_to_chunks EXCEPT ![p] = h.chunks]
                /\ finalisers' = [finalisers EXCEPT ![p] = @ \cup h.spawn]
                /\ listener_alive' = [listener_alive EXCEPT ![p] = ~h.raised]
                /\ delivered' = [delivered EXCEPT ![p] = @ \o h.log]
                /\ n_disp' = IF f.type \in {0, 2}
                             THEN [n_disp EXCEPT ![p] = Bump(@, f.mid, 1)]
                             ELSE n_disp
                /\ n_ack' = [n_ack EXCEPT ![p] = BumpAcks(@, h.out, 1)]
                /\ IF CallsOnReliable(h.out)
                   THEN /\ next_message_id' =
                               [next_message_id EXCEPT ![p] = ReplyId(p)]
                        /\ message_id_to_was_acked' =
                               [message_id_to_was_acked EXCEPT
                                   ![p] = Put(h.acked, ReplyId(p), FALSE)]
                        /\ wire' = SendAll(rest, Other(p), h.out \o <<SendEv(rf)>>)
                        /\ upcall' = [upcall EXCEPT ![p] =
                               [pc |-> "wait_ack", mid |-> ReplyId(p), frame |-> rf]]
                        /\ ev' = ListenStep(p, "dispatch_reply", f,
                                            h.out \o <<SendEv(rf)>>)
                   ELSE /\ message_id_to_was_acked' =
                               [message_id_to_was_acked EXCEPT ![p] = h.acked]
                        /\ wire' = SendAll(rest, Other(p), h.out)
                        /\ ev' = ListenStep(p, "dispatch", f, h.out)
                        /\ UNCHANGED <<next_message_id, upcall>>
    /\ UNCHANGED <<long_size, file_stream_id_to_is_available,
                   file_streams_lock, pc, loc, calls, ids_returned,
                   recv, listen_data, packets, codec>>

\* One test of the loop condition of line 210 by the listener thread of
\* peer p, inside the upcall: the reply is sent again (lines 211-212), or
\* the loop ends and the upcall returns to _listen.
UpcallLoop(p) ==
    /\ upcall[p].pc = "wait_ack"
    /\ IF message_id_to_was_acked[p][upcall[p].mid]
       THEN /\ upcall' = [upcall EXCEPT ![p] = Listening]
            /\ ev' = Step(p, "upcall_returns", <<>>)
            /\ UNCHANGED wire
       ELSE /\ wire' = Transmit(wire, Other(p), upcall[p].frame)
            /\ ev' = Step(p, "upcall_retransmit", <<SendEv(upcall[p].frame)>>)
            /\ UNCHANGED upcall
    /\ UNCHANGED <<long_size, next_message_id, message_id_to_was_acked,
                   messages_ids_that_have_been_received,
                   file_stream_id_to_chunks, file_stream_id_to_is_available,
                   file_streams_lock, listener_alive, finalisers, pc, loc,
                   calls, delivered, n_disp, n_ack, ids_returned,
                   recv, listen_data, packets, codec>>

\* ------------------------------------------------ file receive (4.5)
\* The loop of line 114 has ended for finaliser fin at peer p.
ChunksComplete(p, fin) ==
    Cardinality(DOMAIN file_stream_id_to_chunks[p][fin.stream]) = fin.n
\* Line 117 raises KeyError or UnicodeDecodeError.
NameRaises(p, fin) ==
    LET c == file_stream_id_to_chunks[p][fin.stream]
    IN  0 \notin DOMAIN c \/ ~Utf8Valid(c[0])
\* Line 121 raises KeyError for the chunk the loop is at.
ChunkRaises(p, fin) == fin.i \notin DOMAIN file_stream_id_to_chunks[p][fin.stream]
\* Where the thread is after line 117, or after a turn of the loop of
\* lines 120-121 that read chunk i - 1.
AfterRead(fin, i) == IF i < fin.n THEN "data" ELSE "reset"
\* The on_file upcall of line 124, with the thread's locals.
OnFile(p, fin) ==
    [k |-> "up", fn |-> "on_file", type |-> None, mid |-> fin.mid,
     sid |-> fin.stream, msg |-> fin.file_data, name |-> fin.filename]

\* One step of the thread _handle_file_chunks (lines 112-124) fin at peer
\* p.  The table of chunks is read and written without a lock, so every
\* access is a step of its own: the test of line 114 that ends the wait,
\* the read of the name (line 117), the read of one chunk (line 121), the
\* reset (line 123), the upcall (line 124).  An exception ends the thread.
Finalise(p, fin) ==
    /\ fin \in finalisers[p]
    /\ fin.at = "wait" => ChunksComplete(p, fin)
    /\ LET c    == file_stream_id_to_chunks[p][fin.stream]
           goes(next) == [finalisers EXCEPT ![p] = (@ \ {fin}) \cup {next}]
           ends == [finalisers EXCEPT ![p] = @ \ {fin}]
       IN  IF fin.at = "wait"
           THEN /\ finalisers' = goes([fin EXCEPT !.at = "name"])
                /\ ev' = Step(p, "finaliser_wait_over", <<>>)
                /\ UNCHANGED <<file_stream_id_to_chunks, delivered>>
           ELSE IF fin.at = "name"
           THEN /\ IF NameRaises(p, fin)
                   THEN /\ finalisers' = ends
                        /\ ev' = Step(p, "finaliser_raised", <<>>)
                   ELSE /\ finalisers' = goes([fin EXCEPT
                               !.filename = Utf8Decode(c[0]), !.i = 1,
                               !.at = AfterRead(fin, 1)])
                        /\ ev' = Step(p, "finaliser_name", <<>>)
                /\ UNCHANGED <<file_stream_id_to_chunks, delivered>>
           ELSE IF fin.at = "data"
           THEN /\ IF ChunkRaises(p, fin)
                   THEN /\ finalisers' = ends
                        /\ ev' = Step(p, "finaliser_raised", <<>>)
                   ELSE /\ finalisers' = goes([fin EXCEPT
                               !.file_data = @ \o c[fin.i], !.i = @ + 1,
                               !.at = AfterRead(fin, fin.i + 1)])
                        /\ ev' = Step(p, "finaliser_chunk", <<>>)
                /\ UNCHANGED <<file_stream_id_to_chunks, delivered>>
           ELSE IF fin.at = "reset"
           THEN /\ file_stream_id_to_chunks' =
                       [file_stream_id_to_chunks EXCEPT ![p][fin.stream] = NoTable]
                /\ finalisers' = goes([fin EXCEPT !.at = "upcall"])
                /\ ev' = Step(p, "finaliser_reset", <<>>)
                /\ UNCHANGED delivered
           ELSE /\ delivered' = [delivered EXCEPT ![p] = Append(@, OnFile(p, fin))]
                /\ finalisers' = ends
                /\ ev' = Step(p, "finalise", <<OnFile(p, fin)>>)
                /\ UNCHANGED file_stream_id_to_chunks
    /\ SenderUnchanged
    /\ UNCHANGED <<message_id_to_was_acked, messages_ids_that_have_been_received,
                   listener_alive, wire, n_disp, n_ack>>

\* ------------------------------------------------------------- Next
\* The messaging engine: the application's caller thread sends messages in
\* the four delivery modes.
Next ==
    \/ calls < MaxCalls /\ \E d \in Payloads : send_reliable(d)
    \/ calls < MaxCalls /\ \E d \in Payloads : send_unreliable(d)
    \/ calls < MaxCalls /\ \E d \in Payloads : \E sid \in AppStreams :
          send_reliable_stream_message(d, sid)
    \/ calls < MaxCalls /\ \E d \in Payloads : \E sid \in AppStreams :
          send_unreliable_stream_message(d, sid)
    \/ IdStore("main")
    \/ SendFirst("main")
    \/ Retransmit("main", MaxCopies)
    \/ AckObserved("main")
    \/ \E p \in Peers, keep \in BOOLEAN : Listen(p, keep, MaxCopies)
    \/ \E p \in Peers : Drop(p)

Spec == Init /\ [][Next]_vars

\* The same engine over a transport with fair loss: the threads keep
\* running, and a frame that is sent again and again is eventually read by
\* the listener it is sent to.
FairLoss ==
    /\ WF_vars(IdStore("main"))
    /\ WF_vars(SendFirst("main"))
    /\ WF_vars(Retransmit("main", MaxCopies))
    /\ WF_vars(AckObserved("main"))
    /\ \A p \in Peers : SF_vars(Listen(p, FALSE, MaxCopies))
FairSpec == Init /\ [][Next]_vars /\ FairLoss

\* File transfer: the caller thread starts a transfer and sends a reliable
\* message while the send_file driver thread runs.
FileNext ==
    \/ calls < MaxCalls /\ Cardinality(Started) < FileDrivers
          /\ send_file(PathA)
    \/ calls < MaxCalls /\ send_reliable(<<120>>)
    \/ calls < MaxCalls /\ \E sid \in AppStreams :
          send_reliable_stream_message(<<120>>, sid)
    \/ \E t \in Threads : IdStore(t)
    \/ \E t \in Threads : SendFirst(t)
    \/ \E t \in Threads : Retransmit(t, 1)
    \/ \E t \in Threads : AckObserved(t)
    \/ \E t \in Drivers : LockAcquire(t)
    \/ \E t \in Drivers : ScanFind(t)
    \/ \E t \in Drivers : Mark(t)
    \/ \E t \in Drivers : DriverNext(t)
    \/ \E t \in Drivers : Release(t)
    \/ \E p \in Peers, keep \in BOOLEAN : Listen(p, keep, 1)
    \/ \E p \in Peers : Drop(p)
    \/ \E p \in Peers : \E fin \in finalisers[p] : Finalise(p, fin)

FileSpec == Init /\ [][FileNext]_vars

\* Stream pool under contention: transfers of the empty file started back
\* to back, their driver threads running concurrently.  The transport
\* loses a frame only where the pipe is full.
PoolNext ==
    \/ Cardinality(Started) < PoolDrivers /\ send_file(PathE)
    \/ \E t \in Drivers : IdStore(t)
    \/ \E t \in Drivers : SendFirst(t)
    \/ \E t \in Drivers : Retransmit(t, 1)
    \/ \E t \in Drivers : AckObserved(t)
    \/ \E t \in Drivers : LockAcquire(t)
    \/ \E t \in Drivers : ScanFind(t)
    \/ \E t \in Drivers : Mark(t)
    \/ \E t \in Drivers : DriverNext(t)
    \/ \E t \in Drivers : Release(t)
    \/ \E p \in Peers : Listen(p, FALSE, 1)
    \/ \E p \in Peers : \E fin \in finalisers[p] : Finalise(p, fin)

PoolSpec == Init /\ [][PoolNext]_vars

\* Stream pool exhausted: the caller starts a transfer only while every
\* earlier driver has sent its last frame or is blocked in stream
\* allocation and the earlier transfers have been received, so up to four
\* drivers hold a stream while the next ones wait.
Spinning(d) == pc[d] = "scan" /\ ~SomeAvailable
Settled ==
    /\ \A d \in Started :
          \/ pc[d] \in {"drain", "done"}
          \/ Spinning(d)
          \/ pc[d] = "lock" /\ \E h \in Started : file_streams_lock["A"] = h /\ Spinning(h)
    /\ \A p \in Peers : wire[p] = <<>> /\ finalisers[p] = {}
DrainNext ==
    \/ /\ Cardinality(Started) < Len(FILE_TRANSFER_STREAMS) + Waiters
       /\ Settled
       /\ send_file(PathE)
    \/ \E t \in Drivers : IdStore(t)
    \/ \E t \in Drivers : SendFirst(t)
    \/ \E t \in Drivers : Retransmit(t, 1)
    \/ \E t \in Drivers : AckObserved(t)
    \/ \E t \in Drivers : LockAcquire(t)
    \/ \E t \in Drivers : ScanFind(t)
    \/ \E t \in Drivers : ScanMiss(t)
    \/ \E t \in Drivers : Mark(t)
    \/ \E t \in Drivers : DriverNext(t)
    \/ \E t \in Drivers : Release(t)
    \/ \E p \in Peers, keep \in BOOLEAN : Listen(p, keep, 1)
    \/ \E p \in Peers : Drop(p)
    \/ \E p \in Peers : \E fin \in finalisers[p] : Finalise(p, fin)

\* Every driver thread that can take a step of stream allocation
\* eventually takes it: a spinning thread keeps running.
DrainFair == \A t \in Drivers :
    WF_vars(LockAcquire(t)) /\ WF_vars(ScanFind(t)) /\ WF_vars(Mark(t))
DrainSpec == Init /\ [][DrainNext]_vars /\ DrainFair

\* Frames a remote peer's implementation of the protocol may send to A
\* besides the answers of B's listener: ACKs of ids 0..2, an unreliable
\* message, and on a file-transfer stream a chunk whose is-last byte is
\* '2' and a payload shorter than the chunk header.
RemoteFrames ==
    {wrap_ack(a) : a \in 0..2}
    \cup {wrap_unreliable(<<120>>),
          wrap_reliable_stream(ChunkMessage(1, 50, <<65>>), 3,
                               FILE_TRANSFER_STREAMS[1]),
          wrap_reliable_stream(<<1, 0>>, 4, FILE_TRANSFER_STREAMS[1])}
\* The transport hands A's listener a frame of the remote peer.
Inject(f) ==
    /\ wire["A"] = <<>>
    /\ wire' = [wire EXCEPT !["A"] = <<f>>]
    /\ ev' = Step("remote", "remote_send", <<>>)
    /\ SenderUnchanged
    /\ UNCHANGED <<message_id_to_was_acked, messages_ids_that_have_been_received,
                   file_stream_id_to_chunks, listener_alive, finalisers,
                   delivered, n_disp, n_ack>>

\* The handler under frames of every kind: the caller sends reliable
\* messages and calls send_file on a missing path while the remote peer
\* sends A frames of its own.
HandlerNext ==
    \/ calls < MaxCalls /\ send_reliable(<<120>>)
    \/ calls < MaxCalls /\ \E path \in MissingPaths : send_file(path)
    \/ IdStore("main")
    \/ SendFirst("main")
    \/ Retransmit("main", 1)
    \/ AckObserved("main")
    \/ \E f \in RemoteFrames : Inject(f)
    \/ \E p \in Peers : Listen(p, FALSE, 1)
    \/ \E p \in Peers : Drop(p)

HandlerSpec == Init /\ [][HandlerNext]_vars

\* Peer "A" sends reliable messages; the application at "B" answers each
\* one from inside on_reliable_message with send_reliable(Reply).  Nothing
\* is lost on the way except what a full pipe cannot take.
ReplyNext ==
    \/ calls < MaxCalls /\ \E d \in Payloads : send_reliable(d)
    \/ IdStore("main")
    \/ SendFirst("main")
    \/ Retransmit("main", 1)
    \/ AckObserved("main")
    \/ Listen("A", FALSE, 1)
    \/ ReplyListen("B")
    \/ UpcallLoop("B")
\* Every thread keeps running, and a frame that is sent again and again is
\* eventually read by a listener that is reading.
ReplyFair ==
    /\ WF_vars(IdStore("main"))
    /\ WF_vars(SendFirst("main"))
    /\ WF_vars(Retransmit("main", 1))
    /\ WF_vars(AckObserved("main"))
    /\ SF_vars(Listen("A", FALSE, 1))
    /\ SF_vars(ReplyListen("B"))
    /\ WF_vars(UpcallLoop("B"))
ReplySpec == Init /\ [][ReplyNext]_vars /\ ReplyFair

\* ------------------------------------------- the listener, byte by byte
\* The barker_indexes of _extract_packets (lines 61-67), from index last on.
RECURSIVE BarkerIndexes(_, _)
BarkerIndexes(data, last) ==
    LET barker_index == Find(data, BARKER, last + BARKER_LENGTH)
    IN  IF barker_index = 0 - 1 THEN <<last>>
        ELSE <<last>> \o BarkerIndexes(data, barker_index)
\* _extract_packets(data) (lines 52-74).
_extract_packets(data) ==
    LET barker_indexes == BarkerIndexes(data, 0)
    IN  [i \in 1..Len(barker_indexes) |->
            IF i < Len(barker_indexes)
            THEN Slice(data, barker_indexes[i], barker_indexes[i + 1])
            ELSE Slice(data, barker_indexes[i], Len(data))]

\* data[-(BARKER_LENGTH - 1):] of line 183.
KeepTail(data) ==
    SubSeq(data, IF Len(data) > BARKER_LENGTH - 1
                 THEN Len(data) - (BARKER_LENGTH - 1) + 1 ELSE 1, Len(data))

ByteListenerRest ==
    UNCHANGED <<long_size, next_message_id, file_stream_id_to_is_available,
                file_streams_lock, pc, loc, calls, ids_returned, upcall, codec>>

\* One turn of the loop of _listen at peer p up to line 187: receive, the
\* empty read (lines 176-177), the search for the Barker (lines 179-186)
\* and the split into candidates.
Receive(p) ==
    /\ listener_alive[p]
    /\ upcall[p].pc = "listening"
    /\ packets[p] = <<>>
    /\ recv[p].pieces # <<>>
    /\ recv' = [recv EXCEPT ![p].pieces = Tail(@)]
    /\ LET new_data == Head(recv[p].pieces)
           joined   == listen_data[p] \o new_data
           barker_index == Find(joined, BARKER, 0)
       IN  IF new_data = <<>>
           THEN /\ ev' = Step(p, "receive_nothing", <<>>)
                /\ UNCHANGED <<listen_data, packets>>
           ELSE IF barker_index = 0 - 1
           THEN /\ listen_data' = [listen_data EXCEPT ![p] = KeepTail(joined)]
                /\ ev' = Step(p, "bad_data", <<>>)
                /\ UNCHANGED packets
           ELSE /\ listen_data' = [listen_data EXCEPT
                                      ![p] = Slice(joined, barker_index, Len(joined))]
                /\ packets' = [packets EXCEPT
                       ![p] = _extract_packets(Slice(joined, barker_index, Len(joined)))]
                /\ ev' = Step(p, "receive", <<>>)
    /\ ByteListenerRest
    /\ UNCHANGED <<message_id_to_was_acked, messages_ids_that_have_been_received,
                   file_stream_id_to_chunks, listener_alive, finalisers,
                   delivered, n_disp, n_ack, wire>>

\* The upcalls among the sends and upcalls of a dispatch, in order.
Upcalls(out) == SelectSeq(out, LAMBDA x : x.k = "up")
\* The frame a candidate that unwrapped was, for the record of the step.
FrameOf(packet, u) ==
    [type |-> packet[BARKER_LENGTH + 1],
     mid |-> IF u.acked_message_id # None THEN u.acked_message_id ELSE u.message_id,
     sid |-> u.stream_id,
     payload |-> IF u.acked_message_id # None THEN <<>> ELSE u.message]

\* The next candidate of the turn at peer p: lines 189-197 for one of
\* packets[:-1], lines 199-205 for packets[-1].  Here `delivered` logs every
\* upcall of the dispatch.
Candidate(p) ==
    /\ listener_alive[p]
    /\ packets[p] # <<>>
    /\ packets' = [packets EXCEPT ![p] = Tail(@)]
    /\ LET packet == Head(packets[p])
           last   == Len(packets[p]) = 1
           u      == unwrap_bytes(packet, long_size)
           h      == _handle_unwrapped_message(p, u)
       IN  IF ~u.ok
           THEN /\ listen_data' = IF last THEN [listen_data EXCEPT ![p] = packet]
                                  ELSE listen_data
                /\ ev' = Step(p, "bad_packet", <<>>)
                /\ UNCHANGED <<message_id_to_was_acked,
                               messages_ids_that_have_been_received,
                               file_stream_id_to_chunks, listener_alive,
                               finalisers, delivered, n_disp, n_ack, wire>>
           ELSE /\ listen_data' = IF last
                                  THEN [listen_data EXCEPT ![p] = u.redundant_bytes]
                                  ELSE listen_data
                /\ wire' = SendAll(wire, Other(p), h.out)
                /\ message_id_to_was_acked' =
                       [message_id_to_was_acked EXCEPT ![p] = h.acked]
                /\ messages_ids_that_have_been_received' =
                       [messages_ids_that_have_been_received EXCEPT ![p] = h.received]
                /\ file_stream_id_to_chunks' =
                       [file_stream_id_to_chunks EXCEPT ![p] = h.chunks]
                /\ finalisers' = [finalisers EXCEPT ![p] = @ \cup h.spawn]
                /\ listener_alive' = [listener_alive EXCEPT ![p] = ~h.raised]
                /\ delivered' = [delivered EXCEPT ![p] = @ \o Upcalls(h.out)]
                /\ n_disp' = IF u.message_id # None
                             THEN [n_disp EXCEPT ![p] = Bump(@, u.message_id, 1)]
                             ELSE n_disp
                /\ n_ack' = [n_ack EXCEPT ![p] = BumpAcks(@, h.out, 1)]
                /\ ev' = ListenStep(p, "dispatch", FrameOf(packet, u), h.out)
    /\ ByteListenerRest
    /\ UNCHANGED recv

\* What the remote peer's transport hands the listener.
\* Every way of cutting a byte string in two or in three non-empty pieces.
Cut2(b) == {<<Slice(b, 0, i), Slice(b, i, Len(b))>> : i \in 1..(Len(b) - 1)}
Cut3(b) ==
    UNION {{<<Slice(b, 0, i), Slice(b, i, j), Slice(b, j, Len(b))>> :
               j \in (i + 1)..(Len(b) - 1)} : i \in 1..(Len(b) - 2)}
\* The same pieces with reads that return nothing before and between them.
EmptyReads(s) == {s, <<<<>>>> \o s, <<Head(s), <<>>, <<>>>> \o Tail(s)}

\* The frames whose bytes are cut: ordinary payloads, a payload the
\* stuffing changes, and StraddlePayload.
SplitFrames ==
    {wrap_unreliable(<<120>>), wrap_reliable(<<104, 105>>, 1),
     wrap_reliable_stream(BEFORE_STUFF, 2, 5), wrap_unreliable(StraddlePayload)}
SplitScripts(size) ==
    UNION {{[pieces |-> s, sent |-> <<f.payload>>, kind |-> "split"] :
               s \in UNION {EmptyReads(c) :
                               c \in {<<Bytes(f, size)>>} \cup Cut2(Bytes(f, size))}
                        \cup Cut3(Bytes(f, size))}
           : f \in SplitFrames}

\* A frame with a bad CRC: the last byte of the frame is not the one wrap_* wrote.
BadCrc(b) == [b EXCEPT ![Len(b)] = (@ + 1) % 256]
\* A frame of a type PACKET_TYPE_TO_UNWRAPPER (lines 158-163) does not know.
UnknownType(b) == [b EXCEPT ![BARKER_LENGTH + 1] = 9]
Garbage == {<<1, 2, 3>>, BEFORE_STUFF, <<9, 8, 7, 6, 5, 4, 3, 2, 1, 66, 65>>}
Between(size) ==
    {<<>>, <<7, 7>>, BadCrc(Bytes(wrap_unreliable(<<122>>), size)),
     UnknownType(Bytes(wrap_unreliable(<<122>>), size))}
ResyncStream(g, m, size) ==
    g \o Bytes(wrap_reliable(<<120>>, 1), size) \o m
      \o Bytes(wrap_unreliable(<<104, 105>>), size)
ResyncScripts(size) ==
    UNION {{[pieces |-> s, sent |-> <<<<120>>, <<104, 105>>>>, kind |-> "resync"] :
               s \in {<<ResyncStream(g, m, size)>>} \cup Cut2(ResyncStream(g, m, size))}
           : g \in Garbage, m \in Between(size)}

ByteInit ==
    /\ Constructed
    /\ codec = NoCodec
    /\ recv \in {[A |-> NoScript, B |-> s] :
                    s \in SplitScripts(long_size) \cup ResyncScripts(long_size)}
ByteNext == Receive("B") \/ Candidate("B")
ByteSpec == ByteInit /\ [][ByteNext]_vars

\* ---------------------------------------------------------- the codec
CodecPayloads ==
    {<<>>, <<120>>, <<104, 105>>, BEFORE_STUFF, AFTER_STUFF, BARKER,
     BARKER \o AFTER_STUFF, BEFORE_STUFF \o BEFORE_STUFF,
     <<66, 65, 68, 70, 68, 65>>, StraddlePayload}
\* The calls of wrap_* that are followed: every packet type, every payload
\* of CodecPayloads.
CodecFrames ==
    UNION {{wrap_reliable(P, 1), wrap_unreliable(P),
            wrap_reliable_stream(P, 2, 5), wrap_unreliable_stream(P, 5)}
           : P \in CodecPayloads}
    \cup {wrap_ack(1)}

CodecInit ==
    /\ Constructed
    /\ recv = [p \in Peers |-> NoScript]
    /\ codec \in {[NoCodec EXCEPT !.stage = "input", !.f = f] : f \in CodecFrames}

CodecRest ==
    UNCHANGED <<upcall, recv, listen_data, packets, long_size, next_message_id,
                message_id_to_was_acked, messages_ids_that_have_been_received,
                file_stream_id_to_chunks, file_stream_id_to_is_available,
                file_streams_lock, wire, listener_alive, finalisers, pc, loc,
                calls, delivered, n_disp, n_ack, ids_returned>>
\* The call of wrap_* returns its frame.
Wrap ==
    /\ codec.stage = "input"
    /\ codec' = [codec EXCEPT !.stage = "wrapped",
                              !.bytes = Bytes(codec.f, long_size)]
    /\ ev' = Step("codec", "wrap", <<>>)
    /\ CodecRest
\* Protocol.unwrap is called on the frame.
Unwrap ==
    /\ codec.stage = "wrapped"
    /\ codec' = [codec EXCEPT !.stage = "unwrapped",
                              !.back = unwrap_bytes(codec.bytes, long_size)]
    /\ ev' = Step("codec", "unwrap", <<>>)
    /\ CodecRest
CodecNext == Wrap \/ Unwrap
CodecSpec == CodecInit /\ [][CodecNext]_vars

\* =================================================================
\* Claims
\* =================================================================
\* Delivery steps peer p has taken for message id m.
DeliveryCount(p, m) ==
    Cardinality({i \in 1..Len(delivered[p]) :
                    delivered[p][i].mid = m /\ delivered[p][i].fn # "on_file"})

\* C1: a peer takes the delivery step for a message id (the upcall
\* on_reliable_message or on_reliable_stream_message, or the file-reassembly
\* path) at most once, however many copies of the frame arrive, and exactly
\* once as soon as one copy has been dispatched.
C1_DeliveredOncePerId ==
    \A p \in Peers :
        /\ \A m \in DOMAIN n_disp[p] : DeliveryCount(p, m) = 1
        /\ \A i \in 1..Len(delivered[p]) :
              delivered[p][i].fn # "on_file" =>
                 /\ DeliveryCount(p, delivered[p][i].mid) = 1
                 /\ delivered[p][i].mid \in DOMAIN n_disp[p]
                 /\ delivered[p][i].mid \in messages_ids_that_have_been_received[p]
\* A second copy of a file chunk was dispatched: acknowledged, not stored
\* again.
C1_Witness ==
    /\ ev.op = "dispatch"
    /\ ev.in.type = 2 /\ ev.in.sid \in FileStreamIds
    /\ ev.out = <<SendEv(wrap_ack(ev.in.mid))>>
    /\ DeliveryCount(ev.by, ev.in.mid) = 1

\* C2: every reliable or reliable-stream frame a listener dispatches makes
\* it send exactly one ACK carrying that frame's id, first copy or not, and
\* before any upcall; so the copies of a frame dispatched and the ACKs sent
\* for its id are equally many, with one delivery step.
C2_AckPerCopy ==
    /\ (ev.op = "dispatch" /\ ev.in.type \in {0, 2}) =>
          /\ Len(ev.out) >= 1
          /\ ev.out[1] = SendEv(wrap_ack(ev.in.mid))
          /\ \A i \in 2..Len(ev.out) : ev.out[i].k = "up"
    /\ \A p \in Peers : \A m \in DOMAIN n_disp[p] :
          /\ Count(n_ack[p], m) = n_disp[p][m]
          /\ DeliveryCount(p, m) = 1
    /\ \A p \in Peers : DOMAIN n_ack[p] \subseteq DOMAIN n_disp[p]
\* Two copies of one reliable frame were dispatched: two ACKs, one upcall.
C2_Witness ==
    \E m \in DOMAIN n_disp["B"] :
        n_disp["B"][m] = 2 /\ Count(n_ack["B"], m) = 2 /\ DeliveryCount("B", m) = 1

\* C3: a thread in the loop of _send_message_and_wait_for_ack that reads
\* false for its message id sends the very frame of its first transmission
\* again and stays in the loop, however often it has done so; one that reads
\* true leaves the loop without sending; and a reliable frame is only ever
\* sent by a thread that is in its first transmission or in the loop.
C3_Step ==
    /\ \A t \in Threads :
          (pc[t] = "wait_ack" /\ ev'.by = t) =>
             IF ~message_id_to_was_acked["A"][loc[t].mid]
             THEN /\ ev'.op = "retransmit"
                  /\ ev'.out = <<SendEv(loc[t].frame)>>
                  /\ loc[t].frame = WrapFor(loc[t], loc[t].mid)
                  /\ pc'[t] = "wait_ack"
                  /\ loc'[t].frame = loc[t].frame
             ELSE /\ ev'.op = "ack_observed"
                  /\ ev'.out = <<>>
                  /\ pc'[t] # "wait_ack"
    /\ \A i \in 1..Len(ev'.out) :
          (ev'.out[i].k = "send" /\ ev'.out[i].type \in {0, 2}) =>
             /\ ev'.by \in Threads
             /\ pc[ev'.by] \in {"send_first", "wait_ack"}
C3_RetransmitUntilAcked ==
    /\ [][C3_Step]_vars
    /\ [](\A t \in Threads :
            (pc[t] = "wait_ack" /\ ~message_id_to_was_acked["A"][loc[t].mid])
               => ENABLED Retransmit(t, MaxCopies))
\* A thread left the loop after it had retransmitted.
C3_Witness ==
    /\ ev.op = "ack_observed"
    /\ loc["main"].tx >= 2
    /\ message_id_to_was_acked["A"][loc["main"].mid]

\* C5: send_reliable and send_reliable_stream_message return without
\* waiting for the ACK: while a message is unacknowledged the caller is
\* back from the call (and may make the next one).
C5_CallerFreeWhileUnacked ==
    \A m \in DOMAIN message_id_to_was_acked["A"] :
        ~message_id_to_was_acked["A"][m] => pc["main"] = "idle"

\* C4: over a transport with fair loss, every send_reliable(P) of A leads
\* to a state where B has taken exactly one delivery step for the message's
\* id, the upcall on_reliable_message(P), A's table shows the ACK and the
\* retransmission loop has ended.
C4_Called(d) ==
    /\ pc["main"] = "id_store"
    /\ loc["main"].sid = None
    /\ loc["main"].msg = d
C4_Completed(d) ==
    /\ pc["main"] = "idle"
    /\ loc["main"].mid \in DOMAIN message_id_to_was_acked["A"]
    /\ message_id_to_was_acked["A"][loc["main"].mid]
    /\ DeliveryCount("B", loc["main"].mid) = 1
    /\ \E i \in 1..Len(delivered["B"]) :
          delivered["B"][i] =
             UpEv("on_reliable_message", loc["main"].mid, None, d)
C4_ReliableEventuallyDelivered ==
    \A d \in Payloads : C4_Called(d) ~> C4_Completed(d)

\* A driver thread between the return of _lock_file_stream and line 110.
Holding(d) == pc[d] \in {"next", "id_store", "send_first", "wait_ack", "drain"}
\* A driver thread inside _lock_file_stream.
Allocating(d) == pc[d] \in {"lock", "scan", "mark"}

\* C6: no two driver threads of one peer hold the same file-transfer
\* stream id at the same time, and a stream that is held is marked taken.
C6_StreamHeldByOne ==
    /\ \A d \in Drivers : \A e \in Drivers :
          (d # e /\ Holding(d) /\ Holding(e)) => loc[d].stream # loc[e].stream
    /\ \A d \in Drivers :
          Holding(d) => /\ loc[d].stream \in FileStreamIds
                        /\ ~file_stream_id_to_is_available["A"][loc[d].stream]
\* Two drivers hold a stream each and both are sending.
C6_Witness ==
    /\ Holding("d1") /\ Holding("d2")
    /\ pc["d1"] = "wait_ack" /\ pc["d2"] = "wait_ack"

\* C7: while no file-transfer stream is available a driver thread inside
\* _lock_file_stream stays there, gets no stream and sends nothing, and the
\* thread that spins keeps the lock; a thread at the scan of the pool while
\* a stream is available eventually holds a stream.
C7_Step ==
    \A t \in Drivers :
        (Allocating(t) /\ pc[t] # "mark" /\ ~SomeAvailable) =>
           /\ pc'[t] \in {"lock", "scan"}
           /\ loc'[t].stream = None
           /\ ev'.by = t => ev'.out = <<>>
           /\ pc[t] = "scan" =>
                 file_streams_lock'["A"] = t /\ ~Holding(t)'
C7_BlocksUntilRelease ==
    /\ [][C7_Step]_vars
    /\ \A t \in Drivers : (pc[t] = "scan" /\ SomeAvailable) ~> Holding(t)
\* The fifth driver has spun on the exhausted pool and now holds a stream.
C7_Witness ==
    /\ loc["d5"].spins = 1
    /\ Holding("d5")

\* C8: the message ids _get_next_message_id returns at one peer, in the
\* order it returns them to the caller's thread and the send_file driver
\* threads, start at 1 and increase strictly.
C8_IdsStrictlyIncreasing ==
    /\ Len(ids_returned) >= 1 => ids_returned[1] = 1
    /\ \A i \in 1..(Len(ids_returned) - 1) : ids_returned[i] < ids_returned[i + 1]

\* C9: the receiver makes the on_file upcall at most once, with the file
\* name of chunk 0 and the file's bytes in order, and it has made it once
\* the driver has finished and nothing is left in flight.
Quiescent ==
    /\ \A p \in Peers : wire[p] = <<>>
    /\ \A p \in Peers : \A fin \in finalisers[p] :
          fin.at = "wait" /\ ~ChunksComplete(p, fin)
    /\ \A t \in Threads : pc[t] \in {"idle", "unstarted", "done"}
OnFileUpcalls ==
    {i \in 1..Len(delivered["B"]) : delivered["B"][i].fn = "on_file"}
C9_FileDeliveredOnce ==
    /\ Cardinality(OnFileUpcalls) <= 1
    /\ \A i \in OnFileUpcalls :
          /\ delivered["B"][i].name = basename(loc["d1"].path)
          /\ delivered["B"][i].msg = FileSystem[loc["d1"].path]
    /\ (pc["d1"] = "done" /\ Quiescent) => Cardinality(OnFileUpcalls) = 1

\* C10: send_unreliable and send_unreliable_stream_message hand one frame
\* to the transport and return, no other step ever sends an unreliable
\* frame, and a listener that dispatches a copy of one makes exactly one
\* upcall, sends nothing and leaves the received-ids set and the
\* outstanding-ACK table as they were.
C10_Step ==
    /\ ev'.op \in {"send_unreliable", "send_unreliable_stream_message"} =>
          /\ Len(ev'.out) = 1
          /\ ev'.out[1].k = "send"
          /\ ev'.out[1].type = (IF ev'.op = "send_unreliable" THEN 1 ELSE 3)
          /\ pc'["main"] = "idle"
    /\ \A i \in 1..Len(ev'.out) :
          (ev'.out[i].k = "send" /\ ev'.out[i].type \in {1, 3}) =>
             ev'.op \in {"send_unreliable", "send_unreliable_stream_message"}
    /\ (ev'.op = "dispatch" /\ ev'.in.type \in {1, 3}) =>
          /\ ev'.out = <<UpEv(IF ev'.in.type = 1 THEN "on_unreliable_message"
                              ELSE "on_unreliable_stream_message",
                              None, ev'.in.sid, ev'.in.payload)>>
          /\ messages_ids_that_have_been_received' =
                 messages_ids_that_have_been_received
          /\ message_id_to_was_acked' = message_id_to_was_acked
          /\ n_ack' = n_ack
          /\ wire'[Other(ev'.by)] = wire[Other(ev'.by)]
C10_UnreliableOnceNoAck == [][C10_Step]_vars
\* A copy of an unreliable-stream frame was dispatched and the transport
\* still holds the frame, to deliver it once more.
C10_Witness ==
    /\ ev.op = "dispatch" /\ ev.in.type = 3
    /\ wire[ev.by] # <<>> /\ Head(wire[ev.by]) = ev.in

\* C14: an ACK frame whose acked id (1 or more) is no key of the
\* outstanding-ACK table of the peer that dispatches it leaves that table
\* as it was and makes no upcall.
C14_Step ==
    (/\ ev'.op = "dispatch" /\ ev'.in.type = 4
     /\ ev'.in.mid >= 1
     /\ ev'.in.mid \notin DOMAIN message_id_to_was_acked[ev'.by]) =>
       /\ message_id_to_was_acked'[ev'.by] = message_id_to_was_acked[ev'.by]
       /\ \A i \in 1..Len(ev'.out) : ev'.out[i].k # "up"
C14_UnknownAckDropped == [][C14_Step]_vars

\* C15: a send_file call on a path that does not exist (the only calls of
\* send_file in this scenario) raises in the caller: it starts no driver
\* thread, takes no stream id, allocates no message id and sends nothing.
C15_Step ==
    ev'.op \in {"send_file", "send_file_raised"} =>
       /\ ev'.op = "send_file_raised"
       /\ ev'.out = <<>>
       /\ pc' = pc /\ loc' = loc
       /\ file_stream_id_to_is_available' = file_stream_id_to_is_available
       /\ file_streams_lock' = file_streams_lock
       /\ next_message_id' = next_message_id
       /\ ids_returned' = ids_returned
       /\ message_id_to_was_acked' = message_id_to_was_acked
       /\ wire' = wire
C15_MissingFileFailsInCaller ==
    /\ [][C15_Step]_vars
    /\ [](\A d \in Drivers : pc[d] = "unstarted")
\* The call has raised and the caller is back.
C15_Witness ==
    /\ ev.op = "send_file_raised"
    /\ pc["main"] = "idle" /\ calls >= 1

\* C17: the first copy of a reliable-stream frame on a file-transfer
\* stream whose is-last byte is neither '0' nor '1' is acknowledged and its
\* id recorded as received, but it stores no chunk and starts no
\* finaliser, and the listener goes on.
InvalidFlagFrame(f) ==
    /\ f.type = 2 /\ f.sid \in FileStreamIds
    /\ Len(f.payload) >= 5
    /\ f.payload[5] \notin {ORD_0, ORD_1}
C17_Step ==
    (ev'.op = "dispatch" /\ InvalidFlagFrame(ev'.in)) =>
       /\ ev'.out[1] = SendEv(wrap_ack(ev'.in.mid))
       /\ \A i \in 2..Len(ev'.out) : ev'.out[i].fn = "file_reassembly"
       /\ ev'.in.mid \in messages_ids_that_have_been_received'[ev'.by]
       /\ file_stream_id_to_chunks' = file_stream_id_to_chunks
       /\ finalisers' = finalisers
       /\ listener_alive'[ev'.by]
       /\ \A i \in 1..Len(delivered'[ev'.by]) : delivered'[ev'.by][i].fn # "on_file"
C17_InvalidFlagDropped == [][C17_Step]_vars
\* The frame was dispatched: its id is recorded, no chunk is stored.
C17_Witness ==
    /\ ev.op = "dispatch" /\ InvalidFlagFrame(ev.in)
    /\ ev.in.mid \in messages_ids_that_have_been_received[ev.by]
    /\ file_stream_id_to_chunks[ev.by][ev.in.sid] = NoTable

\* C18: no step removes a key of an outstanding-ACK table or an id of a
\* received-ids set, and no step turns an outstanding-ACK entry from true
\* to false.
C18_Step ==
    \A p \in Peers :
        /\ messages_ids_that_have_been_received[p] \subseteq
              messages_ids_that_have_been_received'[p]
        /\ \A m \in DOMAIN message_id_to_was_acked[p] :
              /\ m \in DOMAIN message_id_to_was_acked'[p]
              /\ message_id_to_was_acked[p][m] => message_id_to_was_acked'[p][m]
C18_TablesMonotonic == [][C18_Step]_vars

\* C19: the dispatch of an ACK frame, whatever its acked id, makes no
\* upcall and sends no frame, and changes nothing but the outstanding-ACK
\* table.
C19_Step ==
    (ev'.op = "dispatch" /\ ev'.in.type = 4) =>
       /\ ev'.out = <<>>
       /\ wire'[Other(ev'.by)] = wire[Other(ev'.by)]
       /\ messages_ids_that_have_been_received' =
              messages_ids_that_have_been_received
       /\ file_stream_id_to_chunks' = file_stream_id_to_chunks
       /\ finalisers' = finalisers
       /\ delivered' = delivered
C19_AckHasNoOtherEffect == [][C19_Step]_vars

\* C20: a reliable send made from inside an upcall, on the listener thread,
\* eventually completes: the listener is back in its loop, reading frames.
C20_ReplyEventuallyCompletes ==
    \A p \in Peers : (upcall[p].pc = "wait_ack") ~> (upcall[p].pc = "listening")

\* C13: for every packet type that carries a payload, unwrap(wrap(P, ids))
\* gives back P, the same message id and stream id and an empty tail, and
\* unstuffing the stuffed payload gives P.
C13_RoundTrip ==
    /\ codec.stage # "idle" =>
           _unstuff_data(_stuff_data(codec.f.payload)) = codec.f.payload
    /\ codec.stage = "unwrapped" /\ codec.f.type \in 0..3 =>
           /\ codec.back.ok
           /\ codec.back.message = codec.f.payload
           /\ codec.back.message_id = codec.f.mid
           /\ codec.back.stream_id = codec.f.sid
           /\ codec.back.redundant_bytes = <<>>

\* C16: in a frame wrap_reliable, wrap_unreliable, wrap_reliable_stream or
\* wrap_unreliable_stream returns, the Barker occurs at offset 0 only.
C16_BarkerOnlyAtStart ==
    codec.stage \in {"wrapped", "unwrapped"} /\ codec.f.type \in 0..3 =>
        Find(codec.bytes, BARKER, 1) = 0 - 1

\* The payloads peer p's upcalls got, in order.
Heard(p) == [i \in 1..Len(delivered[p]) |-> delivered[p][i].msg]
\* Every scripted read of peer p has been made and processed.
AllRead(p) == recv[p].pieces = <<>> /\ packets[p] = <<>>
IsPrefix(a, b) == Len(a) <= Len(b) /\ a = SubSeq(b, 1, Len(a))

\* C11: from garbage, wrap(P1), then nothing, garbage, a frame with a bad
\* CRC or a frame of unknown type, then wrap(P2), the listener delivers P1
\* and then P2, each once and nothing else.
C11_Resync ==
    recv["B"].kind = "resync" =>
        /\ IsPrefix(Heard("B"), recv["B"].sent)
        /\ AllRead("B") => Heard("B") = recv["B"].sent

\* C12: when the bytes of wrap(P) arrive in pieces, with empty reads in
\* between, P is delivered exactly once, and not before the last piece.
C12_Partial ==
    recv["B"].kind = "split" =>
        /\ (\E i \in 1..Len(recv["B"].pieces) : recv["B"].pieces[i] # <<>>)
               => Heard("B") = <<>>
        /\ AllRead("B") => Heard("B") = recv["B"].sent

\* C21: no frame that unwrapped stops the listener: after the dispatch of
\* any frame, a file-stream frame with a payload shorter than the chunk
\* header included, the _listen thread of the peer still runs.
C21_Step ==
    ev'.op = "dispatch" => listener_alive'[ev'.by]
C21_ListenerSurvivesDispatch == [][C21_Step]_vars
====
